---------------------------- MODULE Spec2Model ----------------------------
(***************************************************************************)
(* Model of the dependency-free OBJ(+MTL) WebGL viewer of                  *)
(* src/js/glbviewer.js (the IIFE of lines 145-611, whose initWanShiViewer  *)
(* replaces the Three.js one of lines 14-138 on window).                   *)
(*                                                                         *)
(* Identifiers are resolved as the file declares them: the handlers and    *)
(* the tail of initWanShiViewer read `camera`, `resize`, `getEye`,         *)
(* `normalize`, `cross`, `scale` and `add`, none of which is declared in   *)
(* the IIFE or in the module around it, so reading one throws a            *)
(* ReferenceError where the code reaches it.  Status messages are cut to   *)
(* their fixed prefix.                                                     *)
(*                                                                         *)
(* Numbers are fixed point: lengths and coordinates are in hundredths      *)
(* (Scale = 100), so 0.6 is 60 and 12 is 1200.  Mesh documents use whole   *)
(* coordinates, for which every product the code forms (x 0.6, x 2.6, / 2) *)
(* is exact in hundredths.                                                 *)
(***************************************************************************)
EXTENDS Integers, Sequences, FiniteSets, TLC

\* ------------------------------------------------------------------ bounds
MaxPointers == 2
MaxCoord == 1
MaxLines == 4         \* lines of a mesh document given to parseOBJ on its own
MaxFaceVerts == 4     \* vertices of a face line

\* --------------------------------------------------------------- constants
Scale == 100
MinDistance == 60
MaxDistance == 1200

Null == "null"

Max2(a, b) == IF a >= b THEN a ELSE b
Min2(a, b) == IF a <= b THEN a ELSE b

\* ------------------------------------------------------------- mesh parser
\* A mesh document is a sequence of lines already split into fields:
\*   [key |-> "v",  nums |-> <<x, y, z>>]    (parseFloat results, hundredths)
\*   [key |-> "vt", nums |-> <<u, v>>]
\*   [key |-> "vn", nums |-> <<x, y, z>>]
\*   [key |-> "f",  verts |-> << <<vi, ti, ni>>, ... >>]  (parseInt results,
\*                                      0 where the field is absent)
\* Any other key is an unrecognised directive.

\* The pools start with the index-0 sentinel; JS index i is TLA index i + 1.
PoolsInit ==
    [positions |-> << <<0, 0, 0>> >>,
     texcoords |-> << <<0, 0>> >>,
     normals   |-> << <<0, 0, Scale>> >>,
     outPos |-> << >>, outUV |-> << >>, outNor |-> << >>]

\* pool[i] || dflt : an index outside the array reads undefined
PoolAt(pool, i, dflt) ==
    IF i >= 0 /\ i < Len(pool) THEN pool[i + 1] ELSE dflt

\* a negative index counted from the number of elements read, as if the
\* pools had no sentinel
ResolveIndex_NoSentinel(idx, poolLength) ==
    IF idx < 0 THEN (poolLength - 1) + idx ELSE idx

\* idx < 0 ? pool.length + idx : idx
ResolveIndex(idx, poolLength) ==
    IF idx < 0 THEN poolLength + idx ELSE idx

\* addVertex pushing a texcoord only where the index finds one
addVertex_SkipMissingUV(st, v) ==
    LET p == PoolAt(st.positions, v[1], <<0, 0, 0>>)
        n == PoolAt(st.normals, v[3], <<0, 0, Scale>>)
    IN  [st EXCEPT !.outPos = Append(@, p),
                   !.outUV  = IF v[2] >= 0 /\ v[2] < Len(st.texcoords)
                              THEN Append(@, <<st.texcoords[v[2] + 1][1],
                                               Scale - st.texcoords[v[2] + 1][2]>>)
                              ELSE @,
                   !.outNor = Append(@, n)]

addVertex(st, v) ==
    LET p == PoolAt(st.positions, v[1], <<0, 0, 0>>)
        t == PoolAt(st.texcoords, v[2], <<0, 0>>)
        n == PoolAt(st.normals, v[3], <<0, 0, Scale>>)
    IN  [st EXCEPT !.outPos = Append(@, p),
                   !.outUV  = Append(@, <<t[1], Scale - t[2]>>),
                   !.outNor = Append(@, n)]

RECURSIVE FanFrom_Strip(_, _, _)
\* a strip in place of the fan: (v(i-1), vi, v(i+1))
FanFrom_Strip(st, verts, i) ==
    IF i >= Len(verts) - 1 THEN st
    ELSE FanFrom_Strip(addVertex(addVertex(addVertex(st, verts[i]),
                                           verts[i + 1]),
                                 verts[i + 2]),
                       verts, i + 1)

RECURSIVE FanFrom(_, _, _)
\* for (let i = 1; i < verts.length - 1; i++) addVertex(v0, vi, vi+1)
FanFrom(st, verts, i) ==
    IF i >= Len(verts) - 1 THEN st
    ELSE FanFrom(addVertex(addVertex(addVertex(st, verts[1]), verts[i + 1]),
                           verts[i + 2]),
                 verts, i + 1)

FaceLine(st, raw) ==
    LET verts == [k \in 1..Len(raw) |->
                    << ResolveIndex(raw[k][1], Len(st.positions)),
                       ResolveIndex(raw[k][2], Len(st.texcoords)),
                       ResolveIndex(raw[k][3], Len(st.normals)) >>]
    IN  FanFrom(st, verts, 1)

ParseLine(st, ln) ==
    CASE ln.key = "v"  -> [st EXCEPT !.positions = Append(@, ln.nums)]
      [] ln.key = "vt" -> [st EXCEPT !.texcoords = Append(@, ln.nums)]
      [] ln.key = "vn" -> [st EXCEPT !.normals = Append(@, ln.nums)]
      [] ln.key = "f"  -> FaceLine(st, ln.verts)
      [] OTHER -> st

RECURSIVE ParseLines(_, _, _)
ParseLines(st, lines, k) ==
    IF k > Len(lines) THEN st
    ELSE ParseLines(ParseLine(st, lines[k]), lines, k + 1)

RECURSIVE SeqMin(_, _, _)
SeqMin(s, axis, k) ==
    IF k = Len(s) THEN s[k][axis]
    ELSE Min2(s[k][axis], SeqMin(s, axis, k + 1))

RECURSIVE SeqMax(_, _, _)
SeqMax(s, axis, k) ==
    IF k = Len(s) THEN s[k][axis]
    ELSE Max2(s[k][axis], SeqMax(s, axis, k + 1))

\* Bounds without the halving of line 329
Bounds_NoHalf(outPos) ==
    IF outPos = << >>
    THEN [center |-> <<"NaN", "NaN", "NaN">>, radius |-> "-Infinity"]
    ELSE
    LET mn == [a \in 1..3 |-> SeqMin(outPos, a, 1)]
        mx == [a \in 1..3 |-> SeqMax(outPos, a, 1)]
        size == [a \in 1..3 |-> mx[a] - mn[a]]
        r == (Max2(size[1], Max2(size[2], size[3])) * 6) \div 10
    IN  [center |-> [a \in 1..3 |-> mn[a] + mx[a]],
         radius |-> IF r = 0 THEN Scale ELSE r]

NaN == "NaN"
NegInfinity == "-Infinity"

\* center = (min + max) / 2 per axis; radius = max extent * 0.6, or 1 when
\* that is 0.  With nothing emitted the minima stay Infinity and the maxima
\* -Infinity: every center coordinate is Infinity + -Infinity = NaN, and the
\* radius is -Infinity * 0.6 = -Infinity, which is truthy and so is kept.
Bounds(outPos) ==
    IF outPos = << >>
    THEN [center |-> <<NaN, NaN, NaN>>, radius |-> NegInfinity]
    ELSE
    LET mn == [a \in 1..3 |-> SeqMin(outPos, a, 1)]
        mx == [a \in 1..3 |-> SeqMax(outPos, a, 1)]
        size == [a \in 1..3 |-> mx[a] - mn[a]]
        r == (Max2(size[1], Max2(size[2], size[3])) * 6) \div 10
    IN  [center |-> [a \in 1..3 |-> (mn[a] + mx[a]) \div 2],
         radius |-> IF r = 0 THEN Scale ELSE r]

\* the return statement with every position moved by -center
MeshOf_Centered(st) ==
    LET c == Bounds(st.outPos).center
    IN  [position |-> [k \in 1..Len(st.outPos) |->
                          [a \in 1..3 |-> st.outPos[k][a] - c[a]]],
         normal |-> st.outNor, uv |-> st.outUV,
         center |-> c, radius |-> Bounds(st.outPos).radius]

\* the return statement of lines 333-338
MeshOf(st) ==
    [position |-> st.outPos, normal |-> st.outNor, uv |-> st.outUV,
     center |-> Bounds(st.outPos).center, radius |-> Bounds(st.outPos).radius]

parseOBJ(text) == MeshOf(ParseLines(PoolsInit, text, 1))

V(x, y, z) == [key |-> "v", nums |-> <<x * Scale, y * Scale, z * Scale>>]
F(verts) == [key |-> "f", verts |-> verts]

\* The mesh documents the asset server may hold.
MeshDocs ==
    { << V(0,0,0), V(1,0,0), V(0,1,0), F(<< <<1,0,0>>, <<2,0,0>>, <<3,0,0>> >>) >>,
      << V(0,0,0), V(8,0,0), V(8,8,2), V(0,8,2),
         F(<< <<-4,0,0>>, <<-3,0,0>>, <<-2,0,0>>, <<-1,0,0>> >>) >> }

\* ---------------------------------------------------------- material parser
\* A material document is a sequence of lines [key, args]: key is the first
\* field lower-cased, args the number of fields after it.  parseMTL returns
\* the first map_kd line's file name, or null.
RECURSIVE FirstMapKd(_, _)
FirstMapKd(lines, k) ==
    IF k > Len(lines) THEN Null
    ELSE IF lines[k].key = "map_kd" /\ lines[k].args >= 1 THEN lines[k].file
    ELSE FirstMapKd(lines, k + 1)

parseMTL(text) == [mapKd |-> FirstMapKd(text, 1)]

MtlDocs ==
    { << [key |-> "newmtl", args |-> 1, file |-> "m"] >>,
      << [key |-> "newmtl", args |-> 1, file |-> "m"],
         [key |-> "map_kd", args |-> 1, file |-> "owl.png"] >> }

\* ------------------------------------------------------------ viewer state
NullId == 0
PointerIds == 1..MaxPointers
Coords == 0..MaxCoord
Buttons == {0, 2}
DeltaYs == {-120, 0, 1}

\* theta = PI * 0.15 and phi = PI * 0.35, in thousandths of a radian
ThetaInit == 471
PhiInit == 1100

\* rotSpeed = 0.006 radians per pixel, and the bounds 0.12 and PI - 0.12 of
\* line 525, in thousandths of a radian
RotSpeed == 6
PhiMin == 120
PhiMax == 3021

PointerEvents ==
    [pointerId : PointerIds, clientX : Coords, clientY : Coords,
     button : Buttons, shiftKey : BOOLEAN]
\* movePointer reads nothing of its event but the pointer id and position,
\* endPointer nothing but the pointer id
MoveEvents == [pointerId : PointerIds, clientX : Coords, clientY : Coords]
EndEvents == [pointerId : PointerIds]
WheelEvents == [deltaY : DeltaYs]
EndTypes == {"pointerup", "pointercancel", "pointerleave"}

NoMesh == [position |-> << >>, normal |-> << >>, uv |-> << >>,
           center |-> <<0, 0, 0>>, radius |-> 0]
NoEvent == [type |-> "none", deltaY |-> 0, outcome |-> "none"]

VARIABLES
    pc,              \* where initWanShiViewer is: start, await_obj, await_mtl,
                     \* await_img, returned (early return), rejected (threw)
    statusEl,        \* whether opts.statusId names an element
    mtlPath,         \* whether opts.mtlPath is given
    status,          \* textContent of the status element
    fault,           \* what went wrong: none, canvas, context, shader, load
    fetches,         \* the asset loads issued so far, in order, each with
                     \* its result: pending, ok or failed
    mesh,            \* parseOBJ's result
    mapKd,           \* parseMTL's result
    uHasTex,         \* the uHasTex uniform: -1 unset, 0, 1
    listeners,       \* the canvas listeners of lines 555-572 are attached
    rafPending,      \* callbacks pending with requestAnimationFrame
    frames,          \* frames drawn by render() so far (line 606)
                     \* (render is called at lines 527, 538 and 571 and
                     \* scheduled at lines 608 and 610; each of these places
                     \* follows a read of an undeclared identifier in its
                     \* function, lines 520, 568 and 575, so none is reached)
    theta, phi, dist, target,      \* the camera variables of lines 475-479
    activePointerId, isDragging, isPanning, lastX, lastY,
    dx, dy,          \* the deltas of lines 514-515 as the handler that ran
                     \* last computed them (0 when it computed none)
    ev,              \* the last event dispatched to a listener (its type, and
                     \* deltaY of a wheel event) and how its handler ended:
                     \* returned (early), prevented (ran to e.preventDefault())
                     \* or threw
    \* parseOBJ run on its own, one line of the document per step
    text,            \* the lines of the document read so far
    pst,             \* the pools and the emitted sequences after those lines
    ppc,             \* "lines" in the loop of line 291, "done" once returned
    parsed,          \* what parseOBJ returned
    \* one invocation of a reply endpoint's handler
    ep,              \* the endpoint invoked: part_000, part_001 or knowledge
    req,             \* the event: its method, its body, and whether
                     \* OPENAI_API_KEY is set in the environment
    rpc,             \* where the handler is: start, awaiting (the upstream
                     \* call), returned, threw
    sent,            \* requests sent to the upstream model
    up,              \* how the upstream call ended
    res              \* the response returned

loadVars == <<pc, statusEl, mtlPath, status, fault, fetches, mesh, mapKd,
              uHasTex, listeners, rafPending, frames>>
cameraVars == <<theta, phi, dist, target>>
pointerVars == <<activePointerId, isDragging, isPanning, lastX, lastY>>
parserVars == <<text, pst, ppc, parsed>>
replyVars == <<ep, req, rpc, sent, up, res>>
\* the state of what runs apart from the viewer
otherVars == <<parserVars, replyVars>>
vars == <<pc, statusEl, mtlPath, status, fault, fetches, mesh, mapKd, uHasTex,
          listeners, rafPending, frames, theta, phi, dist, target,
          activePointerId, isDragging, isPanning, lastX, lastY, dx, dy, ev,
          text, pst, ppc, parsed, ep, req, rpc, sent, up, res>>

\* A request body: absent (event.body is null or empty), not JSON, the JSON
\* text null, or a JSON object whose name and knowledge fields are each
\* absent, a text, a text of white space only, or "hostile": an object with
\* a property toString that is not a function, as in {"toString": 1}.
FieldKinds == {"absent", "text", "blank", "hostile"}
Bodies ==
    {[json |-> j, name |-> "absent", knowledge |-> "absent"] :
        j \in {"none", "malformed", "null"}}
      \cup {[json |-> "object", name |-> n, knowledge |-> k] :
               n \in FieldKinds, k \in FieldKinds}
Methods == {"POST", "OPTIONS", "GET"}
Requests == [method : Methods, body : Bodies, apiKey : BOOLEAN]
Endpoints == {"part_000", "part_001", "knowledge"}

NoRequest ==
    [method |-> "-",
     body |-> [json |-> "none", name |-> "absent", knowledge |-> "absent"],
     apiKey |-> FALSE]
NoOutcome == [kind |-> "none", ok |-> FALSE, status |-> 0, body |-> "-"]
NoResponse == [statusCode |-> 0, payload |-> "none", reply |-> "-"]

\* What fetch and r.text() give: a rejection, or a status with a body that
\* is not JSON, JSON without a reply text ("empty"), or JSON whose reply text
\* is a text, white space only, or not a string (a number).
FetchOutcomes ==
    {[kind |-> "reject", ok |-> FALSE, status |-> 0, body |-> "-"]}
      \cup {[kind |-> "response", ok |-> TRUE, status |-> 200, body |-> b] :
               b \in {"notjson", "empty", "text", "blank", "nonstring"}}
      \cup {[kind |-> "response", ok |-> FALSE, status |-> st, body |-> b] :
               st \in {429, 500}, b \in {"notjson", "empty"}}

\* What client.responses.create gives: a rejection (network error or a
\* status other than 2xx), or a response whose output_text is the string the
\* library assembles, possibly empty.
SdkOutcomes ==
    {[kind |-> "reject", ok |-> FALSE, status |-> 0, body |-> "-"]}
      \cup {[kind |-> "response", ok |-> TRUE, status |-> 200, body |-> b] :
               b \in {"text", "emptytext"}}

\* no handler invoked
ReplyIdle ==
    /\ ep = "none"
    /\ req = NoRequest
    /\ rpc = "idle"
    /\ sent = 0
    /\ up = NoOutcome
    /\ res = NoResponse

\* parseOBJ not called
ParserIdle ==
    /\ text = << >>
    /\ pst = PoolsInit
    /\ ppc = "idle"
    /\ parsed = NoMesh

Init ==
    /\ ParserIdle
    /\ ReplyIdle
    /\ pc = "start"
    /\ statusEl \in BOOLEAN
    /\ mtlPath \in BOOLEAN
    /\ status = "(page)"
    /\ fault = "none"
    /\ fetches = << >>
    /\ mesh = NoMesh
    /\ mapKd = Null
    /\ uHasTex = -1
    /\ listeners = FALSE
    /\ rafPending = 0
    /\ frames = 0
    /\ theta = 0 /\ phi = 0 /\ dist = 0 /\ target = <<0, 0, 0>>
    /\ activePointerId = NullId
    /\ isDragging = FALSE
    /\ isPanning = FALSE
    /\ lastX = 0 /\ lastY = 0
    /\ dx = 0 /\ dy = 0
    /\ ev = NoEvent

\* if (!el) return; el.textContent = msg
setStatus(msg) == IF statusEl THEN msg ELSE status

\* a load is issued / the pending load ends
Issue(asset) == Append(fetches, [asset |-> asset, result |-> "pending"])
Settle(result) == [fetches EXCEPT ![Len(fetches)].result = result]

\* -------------------------------------------------------- initialisation
\* the early exit without its return: initialisation goes on to the load
Inert_NoReturn(msg, why) ==
    /\ pc = "start"
    /\ status' = setStatus(msg)
    /\ fault' = why
    /\ fetches' = Issue("obj")
    /\ pc' = "await_obj"
    /\ UNCHANGED <<statusEl, mtlPath, mesh, mapKd, uHasTex,
                   listeners, rafPending, frames, dx, dy, ev>>
    /\ UNCHANGED cameraVars
    /\ UNCHANGED pointerVars
    /\ UNCHANGED otherVars

\* setStatus(statusEl, msg); return;
Inert(msg, why) ==
    /\ pc = "start"
    /\ status' = setStatus(msg)
    /\ fault' = why
    /\ pc' = "returned"
    /\ UNCHANGED <<statusEl, mtlPath, fetches, mesh, mapKd, uHasTex,
                   listeners, rafPending, frames, dx, dy, ev>>
    /\ UNCHANGED cameraVars
    /\ UNCHANGED pointerVars
    /\ UNCHANGED otherVars

\* document.getElementById(canvasId) is null
CanvasMissing == Inert("3D canvas not found.", "canvas")

\* canvas.getContext("webgl") is null
ContextUnavailable == Inert("WebGL not available in this browser.", "context")

\* createProgram throws: the vertex or the fragment shader does not compile,
\* or the program does not link
ShaderError ==
    \E stage \in {"vertex", "fragment", "link"} : Inert("Shader error", "shader")

\* setStatus("Loading 3D model..."), then await fetchText(opts.objPath)
BeginLoad ==
    /\ pc = "start"
    /\ status' = setStatus("Loading 3D model")
    /\ fetches' = Issue("obj")
    /\ pc' = "await_obj"
    /\ UNCHANGED <<statusEl, mtlPath, fault, mesh, mapKd, uHasTex, listeners,
                   rafPending, frames, dx, dy, ev>>
    /\ UNCHANGED cameraVars
    /\ UNCHANGED pointerVars
    /\ UNCHANGED otherVars

\* catch(e) without the return of line 446: the code after the try runs,
\* and attaches the listeners when parseOBJ's result is there to read
LoadFailed_NoReturn ==
    /\ fetches' = Settle("failed")
    /\ status' = setStatus("3D viewer failed to load")
    /\ fault' = "load"
    /\ listeners' = (pc # "await_obj")
    /\ pc' = "rejected"
    /\ UNCHANGED <<statusEl, mtlPath, mesh, mapKd, uHasTex,
                   rafPending, frames, dx, dy, ev>>
    /\ UNCHANGED cameraVars
    /\ UNCHANGED pointerVars
    /\ UNCHANGED otherVars

\* The pending load throws inside the try of line 430; catch(e) of line
\* 443: status, return.
LoadFailed ==
    /\ fetches' = Settle("failed")
    /\ status' = setStatus("3D viewer failed to load")
    /\ fault' = "load"
    /\ pc' = "returned"
    /\ UNCHANGED <<statusEl, mtlPath, mesh, mapKd, uHasTex, listeners,
                   rafPending, frames, dx, dy, ev>>
    /\ UNCHANGED cameraVars
    /\ UNCHANGED pointerVars
    /\ UNCHANGED otherVars

\* Lines 449-575, run in one turn once the loads are done: buffers, texture
\* uniform, camera variables, canvas listeners.  Line 575 then reads
\* `resize`, which no scope of the file declares at that place (the only
\* resize is local to the Three.js initWanShiViewer of line 49): a
\* ReferenceError rejects the async function before setStatus("") of line
\* 581 and before requestAnimationFrame(render) of line 610.
StartViewer(m, tex) ==
    /\ fetches' = Settle("ok")
    /\ mesh' = m
    /\ uHasTex' = IF tex THEN 1 ELSE 0
    /\ target' = m.center
    /\ theta' = ThetaInit
    /\ phi' = PhiInit
    /\ dist' = (m.radius * 26) \div 10
    /\ listeners' = TRUE
    /\ pc' = "rejected"
    /\ UNCHANGED <<statusEl, mtlPath, status, fault, rafPending, frames,
                   dx, dy, ev>>
    /\ UNCHANGED pointerVars
    /\ UNCHANGED otherVars

\* obj = await fetchText(objPath) resolves; mesh = parseOBJ(obj);
\* if (opts.mtlPath) mtl = await fetchText(opts.mtlPath)
ObjFetched ==
    /\ pc = "await_obj"
    /\ \E doc \in MeshDocs :
         IF mtlPath
         THEN /\ mesh' = parseOBJ(doc)
              /\ fetches' = Append(Settle("ok"),
                                   [asset |-> "mtl", result |-> "pending"])
              /\ pc' = "await_mtl"
              /\ UNCHANGED <<statusEl, mtlPath, status, fault, mapKd, uHasTex,
                             listeners, rafPending, frames, dx, dy, ev>>
              /\ UNCHANGED cameraVars
              /\ UNCHANGED pointerVars
              /\ UNCHANGED otherVars
         ELSE /\ StartViewer(parseOBJ(doc), FALSE)
              /\ UNCHANGED mapKd

\* fetchText throws: fetch rejects, or r.ok is false
ObjFailed ==
    /\ pc = "await_obj"
    /\ \E why \in {"network", "status"} : LoadFailed

\* loadImage called without await: the texture load is issued and lines
\* 449-575 run while it is pending
MtlFetched_NoAwait ==
    /\ pc = "await_mtl"
    /\ \E doc \in MtlDocs :
         /\ mapKd' = parseMTL(doc).mapKd
         /\ IF parseMTL(doc).mapKd # Null
            THEN /\ fetches' = Append(Settle("ok"),
                                      [asset |-> "tex", result |-> "pending"])
                 /\ uHasTex' = 1
                 /\ target' = mesh.center
                 /\ theta' = ThetaInit
                 /\ phi' = PhiInit
                 /\ dist' = (mesh.radius * 26) \div 10
                 /\ listeners' = TRUE
                 /\ pc' = "rejected"
                 /\ UNCHANGED <<statusEl, mtlPath, status, fault, mesh,
                                rafPending, frames, dx, dy, ev>>
                 /\ UNCHANGED pointerVars
                 /\ UNCHANGED otherVars
            ELSE StartViewer(mesh, FALSE)

\* mtl = await fetchText(mtlPath) resolves; m = parseMTL(mtl);
\* if (m.mapKd) img = await loadImage(base + m.mapKd)
MtlFetched ==
    /\ pc = "await_mtl"
    /\ \E doc \in MtlDocs :
         /\ mapKd' = parseMTL(doc).mapKd
         /\ IF parseMTL(doc).mapKd # Null
            THEN /\ fetches' = Append(Settle("ok"),
                                      [asset |-> "tex", result |-> "pending"])
                 /\ pc' = "await_img"
                 /\ UNCHANGED <<statusEl, mtlPath, status, fault, mesh,
                                uHasTex, listeners, rafPending, frames,
                                dx, dy, ev>>
                 /\ UNCHANGED cameraVars
                 /\ UNCHANGED pointerVars
                 /\ UNCHANGED otherVars
            ELSE StartViewer(mesh, FALSE)

MtlFailed ==
    /\ pc = "await_mtl"
    /\ \E why \in {"network", "status"} : LoadFailed

\* img = await loadImage(texUrl) resolves; tex = createTexture(gl, img)
ImgLoaded ==
    /\ pc = "await_img"
    /\ StartViewer(mesh, TRUE)
    /\ UNCHANGED mapKd

\* img.onerror: loadImage rejects inside the same try as the fetches
ImgFailed ==
    /\ pc = "await_img"
    /\ LoadFailed

\* ---------------------------------------------------- interaction handlers
Dispatched(type, deltaY, outcome) ==
    [type |-> type, deltaY |-> deltaY, outcome |-> outcome]

\* beginPointer without the early return of line 494
beginPointer_NoGuard(e) ==
    /\ listeners
    /\ activePointerId' = e.pointerId
    /\ isPanning' = ((e.button = 2) \/ e.shiftKey)
    /\ isDragging' = ~((e.button = 2) \/ e.shiftKey)
    /\ lastX' = e.clientX
    /\ lastY' = e.clientY
    /\ ev' = Dispatched("pointerdown", 0, "prevented")
    /\ dx' = 0 /\ dy' = 0
    /\ UNCHANGED loadVars
    /\ UNCHANGED otherVars
    /\ UNCHANGED cameraVars

\* canvas "pointerdown"
beginPointer(e) ==
    /\ listeners
    /\ IF activePointerId # NullId
       THEN /\ ev' = Dispatched("pointerdown", 0, "returned")
            /\ UNCHANGED pointerVars
       ELSE /\ activePointerId' = e.pointerId
            /\ isPanning' = ((e.button = 2) \/ e.shiftKey)
            /\ isDragging' = ~((e.button = 2) \/ e.shiftKey)
            /\ lastX' = e.clientX
            /\ lastY' = e.clientY
            /\ ev' = Dispatched("pointerdown", 0, "prevented")
    /\ dx' = 0 /\ dy' = 0
    /\ UNCHANGED loadVars
    /\ UNCHANGED otherVars
    /\ UNCHANGED cameraVars

\* movePointer with lines 516-517 moved above lines 514-515: the deltas are
\* taken from the position just overwritten
movePointer_StaleDelta(e) ==
    /\ listeners
    /\ IF activePointerId = NullId \/ e.pointerId # activePointerId
       THEN /\ ev' = Dispatched("pointermove", 0, "returned")
            /\ dx' = 0 /\ dy' = 0
            /\ UNCHANGED <<lastX, lastY>>
       ELSE /\ lastX' = e.clientX
            /\ lastY' = e.clientY
            /\ dx' = e.clientX - lastX'
            /\ dy' = e.clientY - lastY'
            /\ ev' = Dispatched("pointermove", 0, "threw")
    /\ UNCHANGED <<activePointerId, isDragging, isPanning>>
    /\ UNCHANGED loadVars
    /\ UNCHANGED otherVars
    /\ UNCHANGED cameraVars

\* canvas "pointermove".  After the deltas and the last position are set,
\* line 520 reads `camera`, which no scope of the file declares at that
\* place (the camera variables are theta, phi, dist and target; the only
\* `camera` is local to the Three.js initWanShiViewer of line 27): a
\* ReferenceError ends the handler before either branch of line 522, so
\* neither the camera variables change nor render() is called.
movePointer(e) ==
    /\ listeners
    /\ IF activePointerId = NullId \/ e.pointerId # activePointerId
       THEN /\ ev' = Dispatched("pointermove", 0, "returned")
            /\ dx' = 0 /\ dy' = 0
            /\ UNCHANGED <<lastX, lastY>>
       ELSE /\ dx' = e.clientX - lastX
            /\ dy' = e.clientY - lastY
            /\ lastX' = e.clientX
            /\ lastY' = e.clientY
            /\ ev' = Dispatched("pointermove", 0, "threw")
    /\ UNCHANGED <<activePointerId, isDragging, isPanning>>
    /\ UNCHANGED loadVars
    /\ UNCHANGED otherVars
    /\ UNCHANGED cameraVars

\* endPointer without line 549: the rotate flag outlives the gesture
endPointer_KeepsDragging(type, e) ==
    /\ listeners
    /\ IF activePointerId = NullId \/ e.pointerId # activePointerId
       THEN /\ ev' = Dispatched(type, 0, "returned")
            /\ UNCHANGED <<activePointerId, isDragging, isPanning>>
       ELSE /\ activePointerId' = NullId
            /\ isPanning' = FALSE
            /\ ev' = Dispatched(type, 0, "prevented")
            /\ UNCHANGED isDragging
    /\ UNCHANGED <<lastX, lastY>>
    /\ dx' = 0 /\ dy' = 0
    /\ UNCHANGED loadVars
    /\ UNCHANGED otherVars
    /\ UNCHANGED cameraVars

\* endPointer without the pointer-id test of line 545: any pointer's
\* up/cancel/leave ends the gesture
endPointer_AnyPointer(type, e) ==
    /\ listeners
    /\ IF activePointerId = NullId
       THEN /\ ev' = Dispatched(type, 0, "returned")
            /\ UNCHANGED <<activePointerId, isDragging, isPanning>>
       ELSE /\ activePointerId' = NullId
            /\ isDragging' = FALSE
            /\ isPanning' = FALSE
            /\ ev' = Dispatched(type, 0, "prevented")
    /\ UNCHANGED <<lastX, lastY>>
    /\ dx' = 0 /\ dy' = 0
    /\ UNCHANGED loadVars
    /\ UNCHANGED otherVars
    /\ UNCHANGED cameraVars

\* canvas "pointerup", "pointercancel", "pointerleave"
endPointer(type, e) ==
    /\ listeners
    /\ IF activePointerId = NullId \/ e.pointerId # activePointerId
       THEN /\ ev' = Dispatched(type, 0, "returned")
            /\ UNCHANGED <<activePointerId, isDragging, isPanning>>
       ELSE /\ activePointerId' = NullId
            /\ isDragging' = FALSE
            /\ isPanning' = FALSE
            /\ ev' = Dispatched(type, 0, "prevented")
    /\ UNCHANGED <<lastX, lastY>>
    /\ dx' = 0 /\ dy' = 0
    /\ UNCHANGED loadVars
    /\ UNCHANGED otherVars
    /\ UNCHANGED cameraVars

\* canvas "wheel": e.preventDefault(), Math.sign(e.deltaY), then line 568
\* reads `camera`: a ReferenceError, as in movePointer.
wheel(e) ==
    /\ listeners
    /\ ev' = Dispatched("wheel", e.deltaY, "threw")
    /\ dx' = 0 /\ dy' = 0
    /\ UNCHANGED pointerVars
    /\ UNCHANGED loadVars
    /\ UNCHANGED otherVars
    /\ UNCHANGED cameraVars

\* canvas "contextmenu": e.preventDefault()
contextmenu ==
    /\ listeners
    /\ ev' = Dispatched("contextmenu", 0, "prevented")
    /\ dx' = 0 /\ dy' = 0
    /\ UNCHANGED pointerVars
    /\ UNCHANGED loadVars
    /\ UNCHANGED otherVars
    /\ UNCHANGED cameraVars

\* render with the idle spin of the Three.js viewer's animate (line 130)
render_IdleSpin ==
    /\ listeners
    /\ theta' = (theta + 1) % 6283
    /\ ev' = Dispatched("frame", 0, "threw")
    /\ dx' = 0 /\ dy' = 0
    /\ UNCHANGED <<phi, dist, target>>
    /\ UNCHANGED pointerVars
    /\ UNCHANGED loadVars
    /\ UNCHANGED otherVars

\* render(), lines 583-609, called on a viewer whose start-up code (lines
\* 449-575) has run.  Its first statement, line 584, reads `resize`, which no
\* scope of the file declares at that place: a ReferenceError ends the call
\* before anything is drawn and before requestAnimationFrame of line 608.
\* Nothing in lines 584-608 assigns a variable of initWanShiViewer.
render ==
    /\ listeners
    /\ ev' = Dispatched("frame", 0, "threw")
    /\ dx' = 0 /\ dy' = 0
    /\ UNCHANGED cameraVars
    /\ UNCHANGED pointerVars
    /\ UNCHANGED loadVars
    /\ UNCHANGED otherVars

PointerDown == \E e \in PointerEvents : beginPointer(e)
PointerMove == \E e \in MoveEvents : movePointer(e)
PointerEnd == \E type \in EndTypes : \E e \in EndEvents : endPointer(type, e)
Wheel == \E e \in WheelEvents : wheel(e)

Next ==
    \/ CanvasMissing
    \/ ContextUnavailable
    \/ ShaderError
    \/ BeginLoad
    \/ ObjFetched
    \/ ObjFailed
    \/ MtlFetched
    \/ MtlFailed
    \/ ImgLoaded
    \/ ImgFailed
    \/ PointerDown
    \/ PointerMove
    \/ PointerEnd
    \/ Wheel
    \/ contextmenu

Spec == Init /\ [][Next]_vars

\* ---------------------------------------------------- render() on its own
\* No behaviour of Spec reaches a call of render: the calls of lines 527, 538
\* and 571 and the requestAnimationFrame of line 610 all follow a
\* ReferenceError.  FrameSpec is the viewer with render() applied, as a frame
\* callback would apply it, in any state a started viewer can be in.
FrameNext ==
    \/ Next
    \/ render

FrameSpec == Init /\ [][FrameNext]_vars

\* ------------------------------------------------- parseOBJ run on its own
\* initWanShiViewer not called: the viewer's variables keep one value
ViewerIdle ==
    /\ pc = "idle"
    /\ statusEl = FALSE
    /\ mtlPath = FALSE
    /\ status = "(page)"
    /\ fault = "none"
    /\ fetches = << >>
    /\ mesh = NoMesh
    /\ mapKd = Null
    /\ uHasTex = -1
    /\ listeners = FALSE
    /\ rafPending = 0
    /\ frames = 0
    /\ theta = 0 /\ phi = 0 /\ dist = 0 /\ target = <<0, 0, 0>>
    /\ activePointerId = NullId
    /\ isDragging = FALSE
    /\ isPanning = FALSE
    /\ lastX = 0 /\ lastY = 0
    /\ dx = 0 /\ dy = 0
    /\ ev = NoEvent

\* The lines a document is made of.  A face line is f 1 2 ... n with n in
\* 0..MaxFaceVerts (an index is out of range where fewer v lines came
\* before), or the triangle f -1/-1/-1 -2/-2/-2 -3/-3/-3.
VLines == {V(0,0,0), V(1,0,0), V(0,1,0)}
VtLines == {[key |-> "vt", nums |-> <<Scale, 0>>]}
VnLines == {[key |-> "vn", nums |-> <<Scale, 0, 0>>]}
OtherLines == {[key |-> "#"]}
FaceLines ==
    {F([k \in 1..n |-> <<k, 0, 0>>]) : n \in 0..MaxFaceVerts}
       \cup {F([k \in 1..3 |-> <<-k, -k, -k>>])}

\* parseOBJ(text) is called: the pools are seeded, no line is read yet
ParserInit ==
    /\ ViewerIdle
    /\ ReplyIdle
    /\ text = << >>
    /\ pst = PoolsInit
    /\ ppc = "lines"
    /\ parsed = NoMesh

\* one turn of the loop of line 291, on the line ln
ReadLine(ln) ==
    /\ ppc = "lines"
    /\ Len(text) < MaxLines
    /\ text' = Append(text, ln)
    /\ pst' = ParseLine(pst, ln)
    /\ UNCHANGED <<ppc, parsed>>
    /\ UNCHANGED <<loadVars, cameraVars, pointerVars, dx, dy, ev>>
    /\ UNCHANGED replyVars

ReadV == \E ln \in VLines : ReadLine(ln)
ReadVt == \E ln \in VtLines : ReadLine(ln)
ReadVn == \E ln \in VnLines : ReadLine(ln)
ReadF == \E ln \in FaceLines : ReadLine(ln)
\* a blank line, a comment or a directive parseOBJ does not know
ReadOther == \E ln \in OtherLines : ReadLine(ln)

\* the document ends: bounds, return
ParseReturn ==
    /\ ppc = "lines"
    /\ parsed' = MeshOf(pst)
    /\ ppc' = "done"
    /\ UNCHANGED <<text, pst>>
    /\ UNCHANGED <<loadVars, cameraVars, pointerVars, dx, dy, ev>>
    /\ UNCHANGED replyVars

ParserNext ==
    \/ ReadV
    \/ ReadVt
    \/ ReadVn
    \/ ReadF
    \/ ReadOther
    \/ ParseReturn

ParserSpec == ParserInit /\ [][ParserNext]_vars

\* ------------------------------------------------------- reply endpoints
\* One invocation of one handler.  The three handlers are
\* src/unnamed/part_000 (fetch, Responses API), src/unnamed/part_001 (the
\* openai library) and src/netlify/functions/knowledge.js (fetch, Chat
\* Completions, validating).
ReplyInit ==
    /\ ViewerIdle
    /\ ParserIdle
    /\ ep \in Endpoints
    /\ req \in Requests
    /\ rpc = "start"
    /\ sent = 0
    /\ up = NoOutcome
    /\ res = NoResponse

\* JSON.parse(event.body || "{}") throws on a body that is not JSON, and
\* const { name, knowledge } = null throws
DestructureThrows(b) == b.json \in {"malformed", "null"}

\* x.toString(), or `${x}`, on an object whose toString is not callable
ToStringThrows(kind) == kind = "hostile"

\* return { statusCode, body }
Return(code, payload, reply) ==
    /\ res' = [statusCode |-> code, payload |-> payload, reply |-> reply]
    /\ rpc' = "returned"

\* the handler suspends at the await of the upstream call
Await ==
    /\ sent' = sent + 1
    /\ rpc' = "awaiting"
    /\ UNCHANGED res

\* part_000, from the call to the first return or to the await of line 47
part000_handler ==
    /\ ep = "part_000" /\ rpc = "start"
    /\ IF req.method = "OPTIONS"
       THEN Return(204, "none", "-") /\ UNCHANGED sent
       ELSE IF req.method # "POST"
       THEN Return(405, "error", "-") /\ UNCHANGED sent
       ELSE IF ~req.apiKey
       THEN Return(500, "error", "-") /\ UNCHANGED sent
       ELSE IF \/ DestructureThrows(req.body)
               \/ ToStringThrows(req.body.name)
               \/ ToStringThrows(req.body.knowledge)
       THEN \* catch (err) of line 91
            Return(500, "error", "-") /\ UNCHANGED sent
       ELSE Await
    /\ UNCHANGED <<ep, req, up>>
    /\ UNCHANGED <<loadVars, cameraVars, pointerVars, dx, dy, ev>>
    /\ UNCHANGED parserVars

\* part_000, from the end of the fetch (and of r.text()) to the return
part000_resume ==
    /\ ep = "part_000" /\ rpc = "awaiting"
    /\ \E o \in FetchOutcomes :
         /\ up' = o
         /\ IF o.kind = "reject"
            THEN Return(500, "error", "-")
            ELSE IF ~o.ok
            THEN Return(o.status, "error", "-")
            ELSE \* data?.output_text || ...text || "The Library is silent."
                 Return(200, "reply",
                        IF o.body = "nonstring" THEN "nonstring" ELSE "string")
    /\ UNCHANGED <<ep, req, sent>>
    /\ UNCHANGED <<loadVars, cameraVars, pointerVars, dx, dy, ev>>
    /\ UNCHANGED parserVars

\* part_001, from the call to the first return or to the await of line 15
part001_handler ==
    /\ ep = "part_001" /\ rpc = "start"
    /\ IF req.method # "POST"
       THEN Return(405, "text", "-") /\ UNCHANGED sent
       ELSE IF \/ DestructureThrows(req.body)
               \/ ToStringThrows(req.body.name)
               \/ ToStringThrows(req.body.knowledge)
       THEN \* catch (err) of line 31
            Return(500, "reply", "string") /\ UNCHANGED sent
       ELSE Await
    /\ UNCHANGED <<ep, req, up>>
    /\ UNCHANGED <<loadVars, cameraVars, pointerVars, dx, dy, ev>>
    /\ UNCHANGED parserVars

\* part_001, from the end of client.responses.create to the return
part001_resume ==
    /\ ep = "part_001" /\ rpc = "awaiting"
    /\ \E o \in SdkOutcomes :
         /\ up' = o
         /\ IF o.kind = "reject"
            THEN Return(500, "reply", "string")
            ELSE Return(200, "reply", "string")
    /\ UNCHANGED <<ep, req, sent>>
    /\ UNCHANGED <<loadVars, cameraVars, pointerVars, dx, dy, ev>>
    /\ UNCHANGED parserVars

\* name or knowledge of knowledge.js, lines 56-57, is empty:
\* (payload?.name || "").toString().trim().slice(0, 80)
Empty(kind) == kind \in {"absent", "blank"}

\* knowledge.js without the validation of lines 59-61
knowledge_handler_NoValidation ==
    /\ ep = "knowledge" /\ rpc = "start"
    /\ IF req.method = "OPTIONS"
       THEN Return(204, "none", "-") /\ UNCHANGED sent
       ELSE IF req.method # "POST"
       THEN Return(405, "error", "-") /\ UNCHANGED sent
       ELSE IF ~req.apiKey
       THEN Return(500, "error", "-") /\ UNCHANGED sent
       ELSE IF \/ ToStringThrows(req.body.name)
               \/ ToStringThrows(req.body.knowledge)
       THEN rpc' = "threw" /\ UNCHANGED <<res, sent>>
       ELSE Await
    /\ UNCHANGED <<ep, req, up>>
    /\ UNCHANGED <<loadVars, cameraVars, pointerVars, dx, dy, ev>>
    /\ UNCHANGED parserVars

\* knowledge.js, from the call to the first return, to the await of line 83,
\* or to the TypeError that lines 56-57, outside every try, let through
knowledge_handler ==
    /\ ep = "knowledge" /\ rpc = "start"
    /\ IF req.method = "OPTIONS"
       THEN Return(204, "none", "-") /\ UNCHANGED sent
       ELSE IF req.method # "POST"
       THEN Return(405, "error", "-") /\ UNCHANGED sent
       ELSE IF ~req.apiKey
       THEN Return(500, "error", "-") /\ UNCHANGED sent
       ELSE IF \/ ToStringThrows(req.body.name)
               \/ ToStringThrows(req.body.knowledge)
       THEN rpc' = "threw" /\ UNCHANGED <<res, sent>>
       ELSE IF Empty(req.body.name) \/ Empty(req.body.knowledge)
       THEN Return(400, "error", "-") /\ UNCHANGED sent
       ELSE Await
    /\ UNCHANGED <<ep, req, up>>
    /\ UNCHANGED <<loadVars, cameraVars, pointerVars, dx, dy, ev>>
    /\ UNCHANGED parserVars

\* knowledge.js, from the end of the fetch (and of resp.text()) to the return
knowledge_resume ==
    /\ ep = "knowledge" /\ rpc = "awaiting"
    /\ \E o \in FetchOutcomes :
         /\ up' = o
         /\ IF o.kind = "reject"
            THEN Return(502, "error", "-")
            ELSE IF ~o.ok
            THEN Return(502, "error", "-")
            ELSE IF o.body = "nonstring"
            THEN \* content?.trim() on a number: TypeError, catch of line 116
                 Return(502, "error", "-")
            ELSE Return(200, "reply", "string")
    /\ UNCHANGED <<ep, req, sent>>
    /\ UNCHANGED <<loadVars, cameraVars, pointerVars, dx, dy, ev>>
    /\ UNCHANGED parserVars

ReplyNext ==
    \/ part000_handler
    \/ part000_resume
    \/ part001_handler
    \/ part001_resume
    \/ knowledge_handler
    \/ knowledge_resume

ReplySpec == ReplyInit /\ [][ReplyNext]_vars

\* ------------------------------------------------------------------ claims

\* C1: while a pointer is active, a pointer-down event from any pointer, with
\* any button or modifier, changes neither activePointerId, nor the
\* rotate/pan classification, nor the last recorded position, nor the camera
\* state.
C1_SecondPointerDownIgnored ==
    [][(activePointerId # NullId /\ ev'.type = "pointerdown" /\ PointerDown)
          => (UNCHANGED pointerVars /\ UNCHANGED cameraVars)]_vars

\* a pointer-down has just been ignored because a pointer is active
C1_Witness ==
    /\ ev.type = "pointerdown"
    /\ ev.outcome = "returned"
    /\ activePointerId # NullId

\* C2 (as claimed): the classification is fixed at pointer-down; every move
\* of the captured pointer (to another position) changes target but neither
\* theta nor phi in a gesture begun with the secondary button or the modifier
\* held, and changes theta or phi but not target in a gesture begun
\* otherwise.
C2_MoveFollowsClassification ==
    [][\A e \in MoveEvents :
         (/\ movePointer(e)
          /\ e.pointerId = activePointerId
          /\ (e.clientX # lastX \/ e.clientY # lastY))
            => IF isPanning
               THEN target' # target /\ theta' = theta /\ phi' = phi
               ELSE (theta' # theta \/ phi' # phi) /\ target' = target]_vars

\* C3: an up/cancel/leave event of the captured pointer releases the capture
\* and clears the classification, and a pointer-down that finds no pointer
\* active is accepted from any pointer and starts a new gesture (captures its
\* id, classifies it by its button and modifier, records its position); an
\* up/cancel/leave event of another pointer, or with no pointer active,
\* changes nothing.
C3_EndReleasesCapture ==
    [][/\ ev'.type \in EndTypes
            => \A type \in EndTypes : \A e \in EndEvents :
                 endPointer(type, e)
                    => IF /\ activePointerId # NullId
                          /\ e.pointerId = activePointerId
                       THEN /\ activePointerId' = NullId
                            /\ ~isDragging'
                            /\ ~isPanning'
                       ELSE UNCHANGED pointerVars /\ UNCHANGED cameraVars
       /\ (activePointerId = NullId /\ ev'.type = "pointerdown")
            => \A e \in PointerEvents :
                 beginPointer(e)
                    => /\ activePointerId' = e.pointerId
                       /\ isPanning' = (e.button = 2 \/ e.shiftKey)
                       /\ isDragging' = ~isPanning'
                       /\ lastX' = e.clientX
                       /\ lastY' = e.clientY]_vars

\* the captured pointer's gesture has just been ended
C3_Witness ==
    /\ ev.type \in EndTypes
    /\ ev.outcome = "prevented"
    /\ activePointerId = NullId
    /\ ~isDragging
    /\ ~isPanning

\* C4: a pointer-move event of a pointer other than the captured one, or with
\* no pointer active, changes neither the camera state nor the last recorded
\* position and triggers no render; a move of the captured pointer takes its
\* delta from the last recorded position and then records the event's
\* position.
C4_MoveOfCapturedPointerOnly ==
    [][ev'.type = "pointermove" => \A e \in MoveEvents :
         movePointer(e)
            => IF activePointerId = NullId \/ e.pointerId # activePointerId
               THEN /\ UNCHANGED cameraVars
                    /\ UNCHANGED <<lastX, lastY, frames, rafPending>>
               ELSE /\ dx' = e.clientX - lastX
                    /\ dy' = e.clientY - lastY
                    /\ lastX' = e.clientX
                    /\ lastY' = e.clientY]_vars

\* a move of the captured pointer has just been handled, with a delta on
\* both axes
C4_Witness ==
    /\ ev.type = "pointermove"
    /\ ev.outcome # "returned"
    /\ activePointerId # NullId
    /\ dx # 0
    /\ dy # 0

\* the loads are done and lines 449-575 have run
LoadSucceeded == pc = "rejected"

FailedMessage == "3D viewer failed to load"

\* C5 (as claimed): when the mesh and the material document load and the
\* texture image fails to load, the viewer is not aborted: no fatal status,
\* the texture flag is off and the render loop starts.
C5_TextureFailureDegrades ==
    (Len(fetches) = 3 /\ fetches[3].result = "failed")
       => /\ fault = "none"
          /\ status # FailedMessage
          /\ uHasTex = 0
          /\ (rafPending > 0 \/ frames > 0)

\* the mesh fetch (k = 1) or the material fetch (k = 2) has failed
FetchFailed(k) == k <= Len(fetches) /\ fetches[k].result = "failed"

\* C6 (as claimed): when the mesh fetch or the material fetch fails, no later
\* load is issued, a failure message is written to the status, the render
\* loop does not start and no input listener is attached.
C6_FetchFailureWritesStatus ==
    \A k \in 1..2 :
       FetchFailed(k)
          => /\ Len(fetches) = k
             /\ status = FailedMessage
             /\ rafPending = 0 /\ frames = 0
             /\ ~listeners

\* C6 (amended): when the mesh fetch or the material fetch fails, no later
\* load is issued, the failure message is written to the status element if
\* the caller named one (nothing is written otherwise), the render loop does
\* not start and no input listener is attached.
C6_FetchFailureAborts ==
    \A k \in 1..2 :
       FetchFailed(k)
          => /\ Len(fetches) = k
             /\ fault = "load"
             /\ (statusEl => status = FailedMessage)
             /\ (~statusEl => status = "(page)")
             /\ rafPending = 0 /\ frames = 0
             /\ ~listeners

\* the material fetch has failed after the mesh fetch succeeded, and the
\* status element shows the failure
C6_Witness ==
    /\ FetchFailed(2)
    /\ fetches[1].result = "ok"
    /\ status = FailedMessage

InitFaults == {"canvas", "context", "shader"}
InitMessage(why) ==
    CASE why = "canvas" -> "3D canvas not found."
      [] why = "context" -> "WebGL not available in this browser."
      [] why = "shader" -> "Shader error"
      [] OTHER -> "(none)"

\* C7 (as claimed): when the drawing surface is missing, the graphics context
\* is unavailable or the shader program fails to build, the viewer reports a
\* status text and stops: no asset fetch, no input listener, no frame
\* callback.
C7_InitFailureReportsStatus ==
    fault \in InitFaults
       => /\ status = InitMessage(fault)
          /\ fetches = << >>
          /\ ~listeners
          /\ rafPending = 0 /\ frames = 0

\* C7 (amended): in those three cases the viewer writes the status text to
\* the status element if the caller named one (nothing is written otherwise)
\* and stops: no asset fetch, no input listener, no frame callback.
C7_InitFailureInert ==
    fault \in InitFaults
       => /\ pc = "returned"
          /\ (statusEl => status = InitMessage(fault))
          /\ (~statusEl => status = "(page)")
          /\ fetches = << >>
          /\ ~listeners
          /\ rafPending = 0 /\ frames = 0

\* the shader program has failed to build and the status element says so
C7_Witness ==
    /\ fault = "shader"
    /\ status = "Shader error"
    /\ pc = "returned"

AssetOrder == <<"obj", "mtl", "tex">>

\* C8: the loads are issued in the order mesh, material, texture, each after
\* the one before it has succeeded, the material only if a material path is
\* given and the texture only if the material names a diffuse map; while a
\* load is pending (or none is issued yet) no frame is rendered and no event
\* reaches a handler, so the camera and pointer state are as constructed.
C8_SequentialLoads ==
    /\ Len(fetches) <= 3
    /\ \A k \in 1..Len(fetches) :
          /\ fetches[k].asset = AssetOrder[k]
          /\ (k < Len(fetches) => fetches[k].result = "ok")
    /\ (Len(fetches) >= 2 => mtlPath)
    /\ (Len(fetches) >= 3 => mapKd # Null)
    /\ ((fetches = << >> \/ \E k \in 1..Len(fetches) :
                               fetches[k].result = "pending")
          => /\ frames = 0 /\ rafPending = 0
             /\ ~listeners
             /\ ev = NoEvent
             /\ theta = 0 /\ phi = 0 /\ dist = 0 /\ target = <<0, 0, 0>>
             /\ activePointerId = NullId)

\* the texture load is in flight, after the mesh and the material loaded
C8_Witness ==
    /\ Len(fetches) = 3
    /\ fetches[3].result = "pending"
    /\ fetches[2].result = "ok"

\* C9 (as claimed): in every state after a successful load, the initial one
\* included, the camera distance is within [0.6, 12].
C9_DistanceInRange ==
    LoadSucceeded => (MinDistance <= dist /\ dist <= MaxDistance)

\* C10 (as claimed): from a distance in the allowed range, every zoom-out
\* step keeps the distance at most 12, moves it strictly up while it is below
\* 12 (so that 12 is reached after finitely many steps) and leaves it at 12
\* once there.
C10_ZoomOutReachesMax ==
    [][\A e \in WheelEvents :
         (/\ wheel(e)
          /\ e.deltaY > 0
          /\ MinDistance <= dist /\ dist <= MaxDistance)
            => /\ dist' <= MaxDistance
               /\ (dist < MaxDistance => dist' > dist)
               /\ (dist = MaxDistance => dist' = MaxDistance)]_vars

C12_FrameAlwaysPending ==
    LoadSucceeded => rafPending >= 1

\* C13: a call of render changes neither theta, phi, dist, target nor the
\* pointer-tracking state; on a started viewer the camera state changes in
\* no step other than the handling of a pointer-move or a wheel event.
C13_RenderOnlyReads ==
    [][/\ ev'.type = "frame"
            => (UNCHANGED cameraVars /\ UNCHANGED pointerVars)
       /\ (listeners /\ cameraVars' # cameraVars)
            => ev'.type \in {"pointermove", "wheel"}]_vars

\* render has just been called in the middle of a gesture
C13_Witness ==
    /\ ev.type = "frame"
    /\ activePointerId # NullId
    /\ theta = ThetaInit /\ phi = PhiInit

\* the line read last, and the lines with a given key read so far
LastLine == text[Len(text)]
LinesOf(lines, key) == SelectSeq(lines, LAMBDA ln : ln.key = key)

\* C14: after every line of any document of v, vt, vn and f lines, and in
\* what parseOBJ returns, the emitted position, normal and texcoord
\* sequences hold the same number of vertex entries, a multiple of 3.
C14_EmittedLengths ==
    /\ Len(pst.outPos) = Len(pst.outUV)
    /\ Len(pst.outPos) = Len(pst.outNor)
    /\ Len(pst.outPos) % 3 = 0
    /\ ppc = "done"
         => /\ Len(parsed.position) = Len(parsed.uv)
            /\ Len(parsed.position) = Len(parsed.normal)
            /\ Len(parsed.position) % 3 = 0

\* two faces have been read, one of them with a texcoord index that finds
\* nothing, and a vt line
C14_Witness ==
    /\ Len(pst.outPos) >= 6
    /\ Len(LinesOf(text, "f")) = 2
    /\ \E k \in 1..Len(text) :
          text[k].key = "f" /\ Len(text[k].verts) = 3 /\ text[k].verts[2][2] = -2
    /\ Len(LinesOf(text, "vt")) = 1

\* what addVertex emits for the face vertex rv (indices as written) when the
\* pools are those of st
EntryOf(st, rv) ==
    LET one == addVertex([st EXCEPT !.outPos = << >>, !.outUV = << >>,
                                    !.outNor = << >>],
                         << ResolveIndex(rv[1], Len(st.positions)),
                            ResolveIndex(rv[2], Len(st.texcoords)),
                            ResolveIndex(rv[3], Len(st.normals)) >>)
    IN  <<one.outPos[1], one.outUV[1], one.outNor[1]>>

\* the face vertex (1-based) that the m-th entry of a fan comes from:
\* triangle j = 1..N-2 is (v0, vj, v(j+1))
FanVertex(m) ==
    IF (m - 1) % 3 = 0 THEN 1 ELSE ((m - 1) \div 3) + 1 + ((m - 1) % 3)

\* C15: a face line with N >= 3 vertices emits exactly the N-2 triangles
\* (v0, vi, v(i+1)), i = 1..N-2, in that order (one triangle for N = 3); a
\* face line with fewer than 3 vertices emits nothing.
C15_FanTriangulation ==
    [][(text' # text /\ text'[Len(text')].key = "f")
         => LET raw == text'[Len(text')].verts
                N == Len(raw)
                old == Len(pst.outPos)
                count == IF N >= 3 THEN 3 * (N - 2) ELSE 0
            IN  /\ Len(pst'.outPos) = old + count
                /\ \A m \in 1..count :
                      <<pst'.outPos[old + m], pst'.outUV[old + m],
                        pst'.outNor[old + m]>> = EntryOf(pst, raw[FanVertex(m)])
                /\ SubSeq(pst'.outPos, 1, old) = pst.outPos]_vars

\* a face of four vertices has just been read after three v lines: two
\* triangles, the second of which ends in the out-of-range fourth vertex
C15_Witness ==
    /\ Len(text) = 4
    /\ LastLine.key = "f"
    /\ Len(LastLine.verts) = 4
    /\ Len(LinesOf(text, "v")) = 3
    /\ Len(pst.outPos) = 6
    /\ pst.outPos[2] # pst.outPos[3]

\* C16: when a face line is processed with L elements read into a pool, a
\* negative index -k (k <= L) in that pool's field resolves to the
\* (L-k+1)-th element read, -1 to the one read last; the position, texcoord
\* and normal fields are resolved each against its own pool.
C16_NegativeIndex ==
    [][(text' # text /\ text'[Len(text')].key = "f"
          /\ Len(text'[Len(text')].verts) = 3)
         => LET raw == text'[Len(text')].verts
                old == Len(pst.outPos)
                vs == LinesOf(text, "v")
                vts == LinesOf(text, "vt")
                vns == LinesOf(text, "vn")
            IN  \A k \in 1..3 :
                  /\ (raw[k][1] < 0 /\ -raw[k][1] <= Len(vs))
                       => pst'.outPos[old + k]
                             = vs[Len(vs) + raw[k][1] + 1].nums
                  /\ (raw[k][2] < 0 /\ -raw[k][2] <= Len(vts))
                       => pst'.outUV[old + k]
                             = << vts[Len(vts) + raw[k][2] + 1].nums[1],
                                  Scale - vts[Len(vts) + raw[k][2] + 1].nums[2] >>
                  /\ (raw[k][3] < 0 /\ -raw[k][3] <= Len(vns))
                       => pst'.outNor[old + k]
                             = vns[Len(vns) + raw[k][3] + 1].nums]_vars

\* the triangle with negative indices has just been read with two positions
\* and one texcoord in the pools
C16_Witness ==
    /\ Len(text) = 4
    /\ LastLine.key = "f"
    /\ Len(LastLine.verts) = 3
    /\ LastLine.verts[1][1] = -1
    /\ Len(LinesOf(text, "v")) = 2
    /\ Len(LinesOf(text, "vt")) = 1
    /\ pst.outPos[1] # pst.outPos[2]

\* v 0 0 0 / v 1 0 0 / v 0 1 0 / f 1 2 3
C17Doc ==
    << V(0,0,0), V(1,0,0), V(0,1,0), F(<< <<1,0,0>>, <<2,0,0>>, <<3,0,0>> >>) >>

\* C17 (as claimed): that document parses to exactly one triangle with
\* bounding-box center (0.33, 0.33, 0) and a radius greater than 0.
C17_ScenarioCentroid ==
    (ppc = "done" /\ text = C17Doc)
       => /\ Len(parsed.position) = 3
          /\ parsed.center = <<33, 33, 0>>
          /\ parsed.radius > 0

\* C17 (amended): that document parses to exactly one triangle with
\* bounding-box center (0.5, 0.5, 0) and a radius greater than 0.
C17_ScenarioBoxCenter ==
    (ppc = "done" /\ text = C17Doc)
       => /\ Len(parsed.position) = 3
          /\ parsed.position = << <<0, 0, 0>>, <<Scale, 0, 0>>, <<0, Scale, 0>> >>
          /\ parsed.center = <<Scale \div 2, Scale \div 2, 0>>
          /\ parsed.radius > 0

\* parseOBJ has returned for that document
C17_Witness ==
    /\ ppc = "done"
    /\ text = C17Doc
    /\ parsed.radius = 60

RequestFailed ==
    \/ req.method \notin {"POST", "OPTIONS"}
    \/ (req.method = "POST" /\ req.body.json = "malformed")
    \/ up.kind = "reject"
    \/ (up.kind = "response" /\ ~up.ok)

\* C19 (as claimed): no handler throws, whatever the method, the body and
\* the upstream outcome; a handler that has ended has returned a response; a
\* response with status 200 carries a reply that is a string; a failed
\* request is answered with a status other than 200 and a body that reports
\* the error.
C19_AlwaysAnswers ==
    /\ rpc # "threw"
    /\ (rpc = "returned") = (res # NoResponse)
    /\ res.statusCode = 200
         => (res.payload = "reply" /\ res.reply = "string")
    /\ (rpc = "returned" /\ RequestFailed)
         => (res.statusCode # 200 /\ res.payload # "none")

C21_GestureFlags ==
    /\ (activePointerId = NullId) <=> (~isDragging /\ ~isPanning)
    /\ ~(isDragging /\ isPanning)
    /\ activePointerId # NullId => (isDragging # isPanning)

\* a pan gesture is in progress and a second pointer-down has just been
\* ignored
C21_Witness ==
    /\ activePointerId # NullId
    /\ isPanning /\ ~isDragging
    /\ ev = Dispatched("pointerdown", 0, "returned")

\* the factors of line 568, in hundredths, and the distance that lines
\* 568-569 name for a wheel event: multiplied, then clamped
ZoomOutFactor == 108
ZoomInFactor == 92
Zoomed(d, deltaY) ==
    LET factor == IF deltaY > 0 THEN ZoomOutFactor ELSE ZoomInFactor
    IN  Max2(MinDistance, Min2(MaxDistance, (d * factor) \div 100))

\* C22 (as claimed): every wheel event multiplies the distance by 1.08 when
\* deltaY > 0 and by 0.92 otherwise (deltaY = 0 included), whatever the
\* magnitude of deltaY, and then clamps it; it changes neither theta, phi,
\* target nor the pointer-tracking state, in a gesture or out of one.
C22_WheelStep ==
    [][ev'.type = "wheel" => \A e \in WheelEvents :
         wheel(e)
            => /\ dist' = Zoomed(dist, e.deltaY)
               /\ theta' = theta /\ phi' = phi /\ target' = target
               /\ UNCHANGED pointerVars]_vars

\* The positions uploaded to the GPU are mesh.position, as parseOBJ returned
\* them: makeVBO(mesh.position, ...) of line 458 copies the array unchanged.
\* C23 (as claimed): after a successful load the bounding box of the
\* uploaded positions is centered at the origin.
C23_UploadedCenteredAtOrigin ==
    LoadSucceeded => Bounds(mesh.position).center = <<0, 0, 0>>

\* C23 (amended): a successful load uploads the positions as the face lines
\* of the document emitted them, with nothing subtracted, and sets the camera
\* target to the center of their bounding box.
C23_TargetAtBoxCenter ==
    [][(~LoadSucceeded /\ LoadSucceeded')
         => \E doc \in MeshDocs :
              LET emitted == ParseLines(PoolsInit, doc, 1).outPos
              IN  /\ mesh'.position = emitted
                  /\ mesh'.center = Bounds(emitted).center
                  /\ target' = Bounds(emitted).center]_vars

\* the one-triangle document is loaded: its second corner is uploaded at
\* (1, 0, 0) and the target is the box center (0.5, 0.5, 0)
C23_Witness ==
    /\ LoadSucceeded
    /\ Len(mesh.position) = 3
    /\ mesh.position[2] = <<Scale, 0, 0>>
    /\ target = <<Scale \div 2, Scale \div 2, 0>>

\* a mutator is applied by a wheel event (zoom) and by a move of the captured
\* pointer (rotate or pan, by the deltas dx, dy)
MutatorEvent(e) ==
    \/ e.type = "wheel"
    \/ (e.type = "pointermove" /\ e.outcome # "returned")

C25_GuardsBeforeUpstream ==
    /\ sent > 0 => req.method = "POST"
    /\ (sent > 0 /\ ep \in {"part_000", "knowledge"}) => req.apiKey
    /\ (sent > 0 /\ ep = "knowledge")
          => (req.body.name = "text" /\ req.body.knowledge = "text")
    /\ (/\ ep = "knowledge" /\ rpc # "start"
        /\ req.method = "POST" /\ req.apiKey
        /\ req.body.json = "malformed")
          => (res.statusCode = 400 /\ sent = 0)

\* knowledge.js is suspended at the upstream call, its request sent
C25_Witness ==
    /\ ep = "knowledge"
    /\ rpc = "awaiting"
    /\ sent = 1
    /\ req.body.json = "object"

=============================================================================
